---- MODULE Spec2Model ----
(***************************************************************************)
(* Model of bin/tact.js: the command-line front end of the Tact compiler.  *)
(* run() is a straight-line sequence of guarded steps; each step is one    *)
(* action and pc is the position of run() in its body.  The argument       *)
(* parser (meow), the evaluator, the backend and git are collaborators:    *)
(* their outcomes are chosen nondeterministically.                         *)
(***************************************************************************)
EXTENDS Integers, Sequences, FiniteSets, TLC

(* ---- bounds ---- *)
MaxInput == 2
MaxProjects == 1

(* ---- optional values: <<>> is undefined, <<v>> is the value v ---- *)
Undefined == <<>>
Some(v) == <<v>>

(* JavaScript truthiness of an optional string: undefined and "" are falsy *)
Truthy(opt) == opt /= Undefined /\ opt[1] /= ""

EvalValues == {Undefined, Some(""), Some("1+1")}
ConfigValues == {Undefined, Some("tact.config.json")}
InputValues == UNION {[1..n -> {"file.tact"}] : n \in 0..MaxInput}
ProjectValues == UNION {[1..n -> {"proj"}] : n \in 0..MaxProjects}

(* the object meow builds from argv: flags declared at lines 38-63, plus input *)
Invocations ==
    [config : ConfigValues, projects : ProjectValues, quiet : BOOLEAN,
     withDecompilation : BOOLEAN, func : BOOLEAN, check : BOOLEAN,
     eval : EvalValues, version : BOOLEAN, help : BOOLEAN,
     input : InputValues]

(* what parseAndEvalExpression can do: return a tagged result or throw *)
EvalOutcomes ==
    {[thrown |-> FALSE, kind |-> "ok", payload |-> "2"],
     [thrown |-> FALSE, kind |-> "error", payload |-> "division by zero"],
     [thrown |-> FALSE, kind |-> "parse-error", payload |-> "syntax error"],
     [thrown |-> TRUE, kind |-> "exception", payload |-> "TypeError"]}

(* what main.run can do: resolve with ok true/false, or throw / reject *)
RunOutcomes ==
    {[thrown |-> FALSE, ok |-> TRUE],
     [thrown |-> FALSE, ok |-> FALSE],
     [thrown |-> TRUE, ok |-> FALSE]}

(* messages *)
MsgBoth == "Both config and Tact file can't be simultaneously specified, pick one!"
MsgExclusive == "Flags --with-decompilation, --func and --check are mutually exclusive!"
MsgEither == "Either config or Tact file have to be specified!"
MsgOneFile == "Only one Tact file can be specified at a time. If you want more, provide a config!"
HelpText == "Usage $ tact [...flags] (--config CONFIG | FILE)"
PkgVersion == "pkg.version"

VARIABLES
    cli,        \* the parsed invocation (never mutated)
    pc,         \* position of run()
    log,        \* console.log / console.error lines, in order
    exits,      \* codes passed to process.exit, in order
    evalCalls,  \* arguments of the calls of main.parseAndEvalExpression
    evalResults,\* their outcomes
    runCalls,   \* requests of the calls of main.run
    runResults, \* their outcomes
    gitLookup   \* "none", "ok" or "throw": the execFileSync("git", ...) call

vars == <<cli, pc, log, exits, evalCalls, evalResults, runCalls, runResults, gitLookup>>

Out(text) == [stream |-> "stdout", prefix |-> "", text |-> text]
Err(prefix, text) == [stream |-> "stderr", prefix |-> prefix, text |-> text]

(* config.isRequired of the flag schema *)
isRequired(flags) ==
    /\ Len(flags.projects) /= 0
    /\ ~flags.version
    /\ ~flags.help
    /\ ~Truthy(flags.eval)

isEmptyConfigAndInput(c) == c.config = Undefined /\ Len(c.input) = 0

B2N(b) == IF b THEN 1 ELSE 0

numOfCompilationModeFlagsSet(c) ==
    B2N(c.check) + B2N(c.func) + B2N(c.withDecompilation)

(* mutant: the last branch repeats the mode of the branch above it *)
ComputeMode_CopiedBranch(c) ==
    IF c.check THEN Some("checkOnly")
    ELSE IF c.func THEN Some("funcOnly")
    ELSE IF c.withDecompilation THEN Some("funcOnly")
    ELSE Undefined

ComputeMode(c) ==
    IF c.check THEN Some("checkOnly")
    ELSE IF c.func THEN Some("funcOnly")
    ELSE IF c.withDecompilation THEN Some("fullWithDecompilation")
    ELSE Undefined

(* cli.input.at(0) *)
At0(s) == IF Len(s) > 0 THEN Some(s[1]) ELSE Undefined

Request(c) ==
    [fileName |-> At0(c.input),
     configPath |-> c.config,
     projectNames |-> c.projects,
     mode |-> ComputeMode(c),
     suppressLog |-> c.quiet]

(* meow's cli.showHelp(code): exit code is code when it is a number, else 2 *)
showHelpCode(code) == IF code = Undefined THEN 2 ELSE code[1]

(* mutant: a backend-reported failure exits like a crash *)
RunExitCode_FailureAsCrash(r) == IF r.thrown THEN 1 ELSE IF r.ok THEN 0 ELSE 1

(* process.exit(response.ok ? 0 : 30), or 1 from the catch block *)
RunExitCode(r) == IF r.thrown THEN 1 ELSE IF r.ok THEN 0 ELSE 30

(* mutant: a tagged failure is reported through the catch block's exit code *)
EvalExitCode_FailureAsCrash(r) ==
    IF r.thrown THEN Some(1) ELSE IF r.kind = "ok" THEN Undefined ELSE Some(1)

(* the process.exit of the eval block: none on "ok", 30 on a tagged failure, *)
(* 1 from the catch block                                                    *)
EvalExitCode(r) ==
    IF r.thrown THEN Some(1) ELSE IF r.kind = "ok" THEN Undefined ELSE Some(30)

(* the line the eval block prints *)
EvalLine(r) ==
    IF r.thrown THEN Err("Evaluation error:", r.payload)
    ELSE IF r.kind = "ok" THEN Out(r.payload)
    ELSE Err("", r.payload)

Init ==
    /\ cli \in Invocations
    /\ pc = "initializeCli"
    /\ log = <<>>
    /\ exits = <<>>
    /\ evalCalls = <<>>
    /\ evalResults = <<>>
    /\ runCalls = <<>>
    /\ runResults = <<>>
    /\ gitLookup = "none"

(* meow rejects an invocation that lacks a required flag and exits with 2 *)
initializeCli ==
    /\ pc = "initializeCli"
    /\ IF isRequired(cli) /\ cli.config = Undefined
       THEN /\ log' = Append(log, Err("", "Missing required flag --config"))
            /\ exits' = Append(exits, 2)
            /\ pc' = "exited"
       ELSE /\ pc' = "help"
            /\ UNCHANGED <<log, exits>>
    /\ UNCHANGED <<cli, evalCalls, evalResults, runCalls, runResults, gitLookup>>

(* mutant: help is shown but run() carries on *)
CheckHelp_NoExit ==
    /\ pc = "help"
    /\ log' = IF cli.help THEN Append(log, Out(HelpText)) ELSE log
    /\ pc' = "version"
    /\ UNCHANGED <<cli, exits, evalCalls, evalResults, runCalls, runResults, gitLookup>>

(* if (cli.flags.help) cli.showHelp(0) *)
CheckHelp ==
    /\ pc = "help"
    /\ IF cli.help
       THEN /\ log' = Append(log, Out(HelpText))
            /\ exits' = Append(exits, showHelpCode(Some(0)))
            /\ pc' = "exited"
       ELSE /\ pc' = "version"
            /\ UNCHANGED <<log, exits>>
    /\ UNCHANGED <<cli, evalCalls, evalResults, runCalls, runResults, gitLookup>>

(* mutant: catch instead of finally, the process exits only after a successful lookup *)
CheckVersion_Catch ==
    /\ pc = "version"
    /\ IF cli.version
       THEN \E ok \in BOOLEAN :
              /\ gitLookup' = IF ok THEN "ok" ELSE "throw"
              /\ IF ok
                 THEN /\ log' = log \o <<Out(PkgVersion), [Out("HEAD") EXCEPT !.prefix = "git commit: "]>>
                      /\ exits' = Append(exits, 0)
                      /\ pc' = "exited"
                 ELSE /\ log' = Append(log, Out(PkgVersion))
                      /\ pc' = "eval"
                      /\ UNCHANGED exits
       ELSE /\ pc' = "eval"
            /\ UNCHANGED <<log, exits, gitLookup>>
    /\ UNCHANGED <<cli, evalCalls, evalResults, runCalls, runResults>>

(* if (cli.flags.version) { log version; try { git; log commit } finally { exit(0) } } *)
CheckVersion ==
    /\ pc = "version"
    /\ IF cli.version
       THEN \E ok \in BOOLEAN :
              /\ gitLookup' = IF ok THEN "ok" ELSE "throw"
              /\ log' = IF ok
                        THEN log \o <<Out(PkgVersion), [Out("HEAD") EXCEPT !.prefix = "git commit: "]>>
                        ELSE Append(log, Out(PkgVersion))
              /\ exits' = Append(exits, 0)
              /\ pc' = "exited"
       ELSE /\ pc' = "eval"
            /\ UNCHANGED <<log, exits, gitLookup>>
    /\ UNCHANGED <<cli, evalCalls, evalResults, runCalls, runResults>>

(* if (cli.flags.eval) { try { ... } catch { ... } } *)
CheckEval ==
    /\ pc = "eval"
    /\ IF Truthy(cli.eval)
       THEN \E r \in EvalOutcomes :
              /\ evalCalls' = Append(evalCalls, cli.eval[1])
              /\ evalResults' = Append(evalResults, r)
              /\ log' = Append(log, EvalLine(r))
              /\ IF EvalExitCode(r) = Undefined
                 THEN /\ pc' = "configAndInput"
                      /\ UNCHANGED exits
                 ELSE /\ exits' = Append(exits, EvalExitCode(r)[1])
                      /\ pc' = "exited"
       ELSE /\ pc' = "configAndInput"
            /\ UNCHANGED <<log, exits, evalCalls, evalResults>>
    /\ UNCHANGED <<cli, runCalls, runResults, gitLookup>>

(* showErrorAndExit(message, cli): console.error, then cli.showHelp() *)
showErrorAndExit(message) ==
    /\ log' = log \o <<Err("Error: ", message), Out(HelpText)>>
    /\ exits' = Append(exits, showHelpCode(Undefined))
    /\ pc' = "exited"

Validate(here, cond, message, next) ==
    /\ pc = here
    /\ IF cond
       THEN showErrorAndExit(message)
       ELSE /\ pc' = next
            /\ UNCHANGED <<log, exits>>
    /\ UNCHANGED <<cli, evalCalls, evalResults, runCalls, runResults, gitLookup>>

CheckConfigAndInput ==
    Validate("configAndInput",
             cli.config /= Undefined /\ Len(cli.input) > 0,
             MsgBoth, "modeFlags")

(* mutant: off-by-one in the comparison *)
CheckModeFlags_OffByOne ==
    Validate("modeFlags",
             numOfCompilationModeFlagsSet(cli) > 2,
             MsgExclusive, "emptyConfigAndInput")

CheckModeFlags ==
    Validate("modeFlags",
             numOfCompilationModeFlagsSet(cli) > 1,
             MsgExclusive, "emptyConfigAndInput")

CheckEmptyConfigAndInput ==
    Validate("emptyConfigAndInput",
             isEmptyConfigAndInput(cli) /\ numOfCompilationModeFlagsSet(cli) > 0,
             MsgEither, "oneFile")

(* mutant: off-by-one in the comparison *)
CheckOneFile_OffByOne ==
    Validate("oneFile", Len(cli.input) > 2, MsgOneFile, "bare")

CheckOneFile ==
    Validate("oneFile", Len(cli.input) > 1, MsgOneFile, "bare")

(* mutant: the bare invocation is not recognised once --eval was given *)
CheckBare_NotAfterEval ==
    /\ pc = "bare"
    /\ IF /\ isEmptyConfigAndInput(cli)
          /\ numOfCompilationModeFlagsSet(cli) = 0
          /\ Len(cli.projects) = 0
          /\ ~Truthy(cli.eval)
       THEN /\ log' = Append(log, Out(HelpText))
            /\ exits' = Append(exits, showHelpCode(Some(0)))
            /\ pc' = "exited"
       ELSE /\ pc' = "run"
            /\ UNCHANGED <<log, exits>>
    /\ UNCHANGED <<cli, evalCalls, evalResults, runCalls, runResults, gitLookup>>

(* bare invocation: cli.showHelp(0) *)
CheckBare ==
    /\ pc = "bare"
    /\ IF /\ isEmptyConfigAndInput(cli)
          /\ numOfCompilationModeFlagsSet(cli) = 0
          /\ Len(cli.projects) = 0
       THEN /\ log' = Append(log, Out(HelpText))
            /\ exits' = Append(exits, showHelpCode(Some(0)))
            /\ pc' = "exited"
       ELSE /\ pc' = "run"
            /\ UNCHANGED <<log, exits>>
    /\ UNCHANGED <<cli, evalCalls, evalResults, runCalls, runResults, gitLookup>>

(* const mode = ...; main.run({...}) is called and run() suspends on await *)
CallRun ==
    /\ pc = "run"
    /\ runCalls' = Append(runCalls, Request(cli))
    /\ pc' = "awaitRun"
    /\ UNCHANGED <<cli, log, exits, evalCalls, evalResults, runResults, gitLookup>>

(* the promise settles: process.exit(response.ok ? 0 : 30), or the catch block *)
RunSettles ==
    /\ pc = "awaitRun"
    /\ \E r \in RunOutcomes :
         /\ runResults' = Append(runResults, r)
         /\ log' = IF r.thrown THEN Append(log, Err("Execution error:", "error")) ELSE log
         /\ exits' = Append(exits, RunExitCode(r))
         /\ pc' = "exited"
    /\ UNCHANGED <<cli, evalCalls, evalResults, runCalls, gitLookup>>

Next ==
    \/ initializeCli
    \/ CheckHelp
    \/ CheckVersion
    \/ CheckEval
    \/ CheckConfigAndInput
    \/ CheckModeFlags
    \/ CheckEmptyConfigAndInput
    \/ CheckOneFile
    \/ CheckBare
    \/ CallRun
    \/ RunSettles

Spec == Init /\ [][Next]_vars

(* ------------------------------------------------------------------------ *)
(* Properties                                                               *)
(* ------------------------------------------------------------------------ *)

ParserRejected == \E i \in DOMAIN log : log[i].text = "Missing required flag --config"

(* the texts of the validation messages emitted so far, in order *)
ErrTexts ==
    LET sel == SelectSeq(log, LAMBDA e : e.prefix = "Error: ")
    IN  [i \in 1..Len(sel) |-> sel[i].text]

EvalOk == evalResults /= <<>> /\ ~evalResults[1].thrown /\ evalResults[1].kind = "ok"

ValidationPcs == {"configAndInput", "modeFlags", "emptyConfigAndInput", "oneFile", "bare"}

(* run() got past the help, version and eval blocks without exiting there *)
ReachedValidation ==
    /\ ~ParserRejected
    /\ ~cli.help
    /\ ~cli.version
    /\ pc \notin {"initializeCli", "help", "version", "eval"}
    /\ (evalResults = <<>> \/ EvalOk)

BothConfigAndInput == cli.config /= Undefined /\ Len(cli.input) > 0

(* C1: with help=true, whatever the other flags, the only thing run() does is *)
(* show the help text and exit with code 0: no version line, no evaluator     *)
(* call, no validation message, no main.run call.                            *)
C1_HelpTakesPrecedence ==
    cli.help =>
        /\ evalCalls = <<>> /\ runCalls = <<>> /\ gitLookup = "none"
        /\ \/ pc \in {"initializeCli", "help"} /\ log = <<>> /\ exits = <<>>
           \/ pc = "exited" /\ log = <<Out(HelpText)>> /\ exits = <<0>>

C1_Witness ==
    /\ cli.help /\ cli.version /\ Truthy(cli.eval) /\ cli.check /\ cli.func
    /\ Len(cli.input) > 1 /\ cli.config /= Undefined
    /\ pc = "exited" /\ exits = <<0>>

(* C2: once main.run has been called the exit code is fixed by its outcome   *)
(* alone: ok true gives 0, ok false gives 30, a throw or rejection gives 1   *)
(* after an "Execution error:" line on the error stream; one exit per call.  *)
C2_RunExitMapping ==
    runCalls /= <<>> =>
        \/ pc = "awaitRun" /\ runResults = <<>> /\ exits = <<>>
        \/ /\ pc = "exited" /\ Len(runCalls) = 1 /\ Len(runResults) = 1 /\ Len(exits) = 1
           /\ LET r == runResults[1]
                  last == IF log = <<>> THEN Out("") ELSE log[Len(log)]
              IN  /\ (~r.thrown /\ r.ok) => exits[1] = 0
                  /\ (~r.thrown /\ ~r.ok) => exits[1] = 30
                  /\ r.thrown => exits[1] = 1
                  /\ r.thrown <=> (last.stream = "stderr" /\ last.prefix = "Execution error:")

C2_Witness ==
    /\ runResults /= <<>> /\ ~runResults[1].thrown /\ ~runResults[1].ok
    /\ exits = <<30>>

(* C3: state part: after the evaluator call, "ok" has printed the value on   *)
(* stdout; any other kind has printed the bare message on stderr and exited  *)
(* with 30; a throw has printed an "Evaluation error:" line and exited 1.    *)
C3_EvalState ==
    evalCalls /= <<>> =>
        /\ Len(evalResults) = 1 /\ Len(log) >= 1
        /\ LET r == evalResults[1]
           IN  /\ (~r.thrown /\ r.kind = "ok") => log[1] = Out(r.payload)
               /\ (~r.thrown /\ r.kind /= "ok") =>
                     /\ log = <<Err("", r.payload)>>
                     /\ exits = <<30>> /\ pc = "exited"
               /\ r.thrown =>
                     /\ log = <<Err("Evaluation error:", r.payload)>>
                     /\ exits = <<1>> /\ pc = "exited"

(* C3: step part: the step that gets "ok" from the evaluator does not exit.  *)
C3_EvalOkStep ==
    (pc = "eval" /\ EvalOk') => (pc' = "configAndInput" /\ exits' = <<>>)

(* C3: the outcome of parseAndEvalExpression maps to output and exit code as *)
(* stated above, and an "ok" result does not terminate at that point.        *)
C3_EvalMapping == []C3_EvalState /\ [][C3_EvalOkStep]_vars

C3_Witness ==
    /\ evalResults /= <<>> /\ ~evalResults[1].thrown /\ evalResults[1].kind = "parse-error"
    /\ exits = <<30>>

(* C4: with version=true and help unset the version is printed and the       *)
(* process exits exactly once with 0, with a revision line when the lookup   *)
(* succeeds and with nothing else when it throws; no evaluation, validation  *)
(* message or main.run call follows.                                         *)
C4_VersionExitsOnce ==
    (cli.version /\ ~cli.help /\ pc \notin {"initializeCli", "help", "version"}) =>
        /\ pc = "exited" /\ exits = <<0>>
        /\ evalCalls = <<>> /\ runCalls = <<>> /\ ErrTexts = <<>>
        /\ \/ gitLookup = "ok"
              /\ log = <<Out(PkgVersion), [Out("HEAD") EXCEPT !.prefix = "git commit: "]>>
           \/ gitLookup = "throw" /\ log = <<Out(PkgVersion)>>

C4_Witness ==
    /\ cli.version /\ ~cli.help /\ Truthy(cli.eval) /\ cli.check
    /\ gitLookup = "throw" /\ pc = "exited"

(* C5 as stated: reaching validation with two or more mode flags set always  *)
(* ends with the mutual-exclusivity message as the first validation message, *)
(* whatever config and input are.                                            *)
C5_Original ==
    (ReachedValidation /\ numOfCompilationModeFlagsSet(cli) >= 2 /\ pc = "exited") =>
        (ErrTexts /= <<>> /\ ErrTexts[1] = MsgExclusive)

(* C5 amended: reaching validation with two or more mode flags set, and not  *)
(* both a config and a positional input, is rejected with the                *)
(* mutual-exclusivity message as the first and only validation message       *)
(* (config absent or present, input of length 0, 1 or more); with both a     *)
(* config and an input the "both config and file" message is emitted         *)
(* instead.                                                                  *)
C5_ExclusiveFirst ==
    (/\ ReachedValidation
     /\ numOfCompilationModeFlagsSet(cli) >= 2
     /\ pc \notin {"configAndInput", "modeFlags"}) =>
        /\ pc = "exited" /\ exits = <<2>> /\ runCalls = <<>>
        /\ ErrTexts = <<IF BothConfigAndInput THEN MsgBoth ELSE MsgExclusive>>

C5_Witness ==
    /\ ReachedValidation /\ numOfCompilationModeFlagsSet(cli) >= 2
    /\ cli.config = Undefined /\ Len(cli.input) > 1
    /\ pc = "exited" /\ ErrTexts = <<MsgExclusive>>

(* C6 as stated: reaching validation with more than one positional input     *)
(* always ends with the "only one Tact file" message, whatever the other     *)
(* flags are.                                                                *)
C6_Original ==
    (ReachedValidation /\ Len(cli.input) > 1 /\ pc = "exited") =>
        (\E i \in DOMAIN ErrTexts : ErrTexts[i] = MsgOneFile)

(* C6 amended: reaching validation with more than one positional input is    *)
(* always rejected (one validation message, exit 2, no main.run call); the   *)
(* message is the "only one Tact file" one when config is absent and at most *)
(* one mode flag is set, independent of projects, quiet and eval; with a     *)
(* config it is the "both config and file" message, otherwise with two or    *)
(* more mode flags the mutual-exclusivity message.                           *)
C6_OneFileOnly ==
    (ReachedValidation /\ Len(cli.input) > 1 /\ pc \notin ValidationPcs) =>
        /\ pc = "exited" /\ exits = <<2>> /\ runCalls = <<>>
        /\ ErrTexts = <<IF cli.config /= Undefined THEN MsgBoth
                        ELSE IF numOfCompilationModeFlagsSet(cli) > 1 THEN MsgExclusive
                        ELSE MsgOneFile>>

C6_Witness ==
    /\ ReachedValidation /\ Len(cli.input) > 1
    /\ cli.config = Undefined /\ cli.func /\ Len(cli.projects) > 0 /\ EvalOk
    /\ pc = "exited" /\ ErrTexts = <<MsgOneFile>>

OnlyEval ==
    /\ Truthy(cli.eval) /\ ~cli.help /\ ~cli.version
    /\ cli.config = Undefined /\ cli.input = <<>> /\ cli.projects = <<>>
    /\ ~cli.check /\ ~cli.func /\ ~cli.withDecompilation

C8_WellFormedRequest ==
    runCalls /= <<>> =>
        LET q == runCalls[1]
        IN  /\ ~BothConfigAndInput
            /\ ~(q.configPath /= Undefined /\ q.fileName /= Undefined)
            /\ numOfCompilationModeFlagsSet(cli) <= 1
            /\ Len(cli.input) <= 1
            /\ ErrTexts = <<>>
            /\ q.mode = Some("checkOnly") <=> cli.check
            /\ q.mode = Some("funcOnly") <=> cli.func
            /\ q.mode = Some("fullWithDecompilation") <=> cli.withDecompilation
            /\ q.mode = Undefined <=> ~(cli.check \/ cli.func \/ cli.withDecompilation)

C8_Witness ==
    /\ runCalls /= <<>> /\ runCalls[1].mode = Some("funcOnly")
    /\ runCalls[1].fileName /= Undefined /\ pc = "awaitRun"

(* C9 as stated: with help and version unset, the evaluator is called        *)
(* exactly once with the literal string whenever eval is set to a string,    *)
(* the empty string included, and never when eval is absent.                 *)
C9_EvalCalledWhenSet ==
    (/\ ~cli.help /\ ~cli.version /\ ~ParserRejected
     /\ pc \notin {"initializeCli", "help", "version", "eval"}) =>
        /\ cli.eval /= Undefined => evalCalls = <<cli.eval[1]>>
        /\ cli.eval = Undefined => evalCalls = <<>>

(* C10 as stated: whenever main.run is called the request carries a config   *)
(* path or a file name.                                                      *)
C10_RequestHasTarget ==
    \A i \in DOMAIN runCalls :
        ~(runCalls[i].configPath = Undefined /\ runCalls[i].fileName = Undefined)

====
